---- MODULE Spec2Model ----
(***************************************************************************)
(* bind9_record resource of terraform-provider-bind9: the Create, Read,    *)
(* Update and Delete handlers of RecordResource, the requests they send    *)
(* through the API client, and the record set the directory holds for the  *)
(* one (zone, name, type) identity the resource manages.                   *)
(*                                                                         *)
(* Strings are sequences of one-character strings, so that SplitN, Trim    *)
(* and Sscanf are computed as the Go code computes them.                   *)
(***************************************************************************)
EXTENDS Integers, Sequences, FiniteSets, TLC

\* Longest records list of a plan.
MaxLen == 2

\* ttl values of a plan; 3600 is the schema default.
TTLs == {300, 3600}

\* Record types of the modelled resource (a subset of the schema's OneOf).
Types == {"A", "CNAME", "MX"}

Zone == <<"e", "x", "a", "m", "p", "l", "e", ".", "c", "o", "m">>
Name == <<"w", "w", "w">>

A1 == <<"1", "0", ".", "0", ".", "1", ".", "1", "0", "0">>
A2 == <<"1", "0", ".", "0", ".", "1", ".", "1", "0", "1">>
MX1 == <<"1", "0", " ", "m", "a", "i", "l", ".", "e", "x", "a", "m", "p", "l", "e", ".", "c", "o", "m", ".">>
MX2 == <<"2", "0", " ", "m", "a", "i", "l", "2", ".", "e", "x", "a", "m", "p", "l", "e", ".", "c", "o", "m", ".">>
CN1 == <<"w", "e", "b", "1", ".", "e", "x", "a", "m", "p", "l", "e", ".", "c", "o", "m", ".">>
CN2 == <<"w", "e", "b", "2", ".", "e", "x", "a", "m", "p", "l", "e", ".", "c", "o", "m", ".">>

\* The rdata values a configuration draws its records list from, per type.
Pool(t) ==
  CASE t = "A" -> {A1, A2}
    [] t = "MX" -> {MX1, MX2}
    [] t = "CNAME" -> {CN1, CN2}

\* The type tag as text, for the id.
TypeText(t) ==
  CASE t = "A" -> <<"A">>
    [] t = "MX" -> <<"M", "X">>
    [] t = "CNAME" -> <<"C", "N", "A", "M", "E">>

Range(s) == {s[i] : i \in 1..Len(s)}

SeqsUpTo(S, n) == UNION {[1..k -> S] : k \in 0..n}

----------------------------------------------------------------------------
\* Go string helpers

\* strings.Index for a one-character separator: the first position, 0 if none.
RECURSIVE IndexFrom(_, _, _)
IndexFrom(s, c, i) ==
  IF i > Len(s) THEN 0
  ELSE IF s[i] = c THEN i
  ELSE IndexFrom(s, c, i + 1)

\* strings.SplitN(s, sep, n) for a one-character sep and n >= 1: at most n
\* pieces, the last one the unsplit remainder.
RECURSIVE SplitN(_, _, _)
SplitN(s, sep, n) ==
  LET i == IndexFrom(s, sep, 1) IN
  IF n <= 1 \/ i = 0 THEN <<s>>
  ELSE <<SubSeq(s, 1, i - 1)>> \o SplitN(SubSeq(s, i + 1, Len(s)), sep, n - 1)

\* strings.Trim(s, cutset) for a one-character cutset.
RECURSIVE TrimLeft(_, _)
TrimLeft(s, c) ==
  IF s # <<>> /\ Head(s) = c THEN TrimLeft(Tail(s), c) ELSE s

RECURSIVE TrimRight(_, _)
TrimRight(s, c) ==
  IF s # <<>> /\ s[Len(s)] = c THEN TrimRight(SubSeq(s, 1, Len(s) - 1), c) ELSE s

\* A trim that removes at most one character from each end.
TrimOne(s, c) ==
  LET l == IF s # <<>> /\ Head(s) = c THEN Tail(s) ELSE s
  IN IF l # <<>> /\ l[Len(l)] = c THEN SubSeq(l, 1, Len(l) - 1) ELSE l

Trim(s, c) == TrimRight(TrimLeft(s, c), c)

Digits == {"0", "1", "2", "3", "4", "5", "6", "7", "8", "9"}

DigitVal(c) ==
  CASE c = "0" -> 0 [] c = "1" -> 1 [] c = "2" -> 2 [] c = "3" -> 3
    [] c = "4" -> 4 [] c = "5" -> 5 [] c = "6" -> 6 [] c = "7" -> 7
    [] c = "8" -> 8 [] c = "9" -> 9

\* The digits fmt.Sscanf's %d consumes from position i on, as a number.
RECURSIVE ScanDigits(_, _, _)
ScanDigits(s, i, acc) ==
  IF i <= Len(s) /\ s[i] \in Digits
    THEN ScanDigits(s, i + 1, acc * 10 + DigitVal(s[i]))
    ELSE acc

\* parseInt64: fmt.Sscanf(s, "%d", &v).  Leading spaces are skipped, an
\* optional sign is read, then the digits; what follows them is ignored.
\* The result is [ok, v]; ok is FALSE when no digit is found.
parseInt64(s) ==
  LET t == TrimLeft(s, " ")
      signed == t # <<>> /\ Head(t) \in {"+", "-"}
      u == IF signed THEN Tail(t) ELSE t
      mag == ScanDigits(u, 1, 0)
  IN IF u = <<>> \/ Head(u) \notin Digits
       THEN [ok |-> FALSE, v |-> 0]
       ELSE [ok |-> TRUE, v |-> IF signed /\ Head(t) = "-" THEN 0 - mag ELSE mag]

----------------------------------------------------------------------------
\* Record codec of the resource

NoData == [k \in {} |-> <<>>]

\* buildRecordData: the data map of a create request.
buildRecordData(recordType, rdata) ==
  CASE recordType \in {"A", "AAAA"} -> [address |-> rdata]
    [] recordType \in {"CNAME", "DNAME"} -> [target |-> rdata]
    [] recordType = "NS" -> [nameserver |-> rdata]
    [] recordType = "PTR" -> [ptrdname |-> rdata]
    [] recordType = "MX" ->
         LET parts == SplitN(rdata, " ", 2) IN
         IF Len(parts) = 2
           THEN [preference |-> parts[1], exchange |-> parts[2]]
           ELSE NoData
    [] recordType = "TXT" -> [text |-> Trim(rdata, "\"")]
    [] recordType = "SRV" ->
         LET parts == SplitN(rdata, " ", 4) IN
         IF Len(parts) = 4
           THEN [priority |-> parts[1], weight |-> parts[2],
                 port |-> parts[3], target |-> parts[4]]
           ELSE NoData
    [] recordType = "CAA" ->
         LET parts == SplitN(rdata, " ", 3) IN
         IF Len(parts) = 3
           THEN [flags |-> parts[1], tag |-> parts[2],
                 value |-> Trim(parts[3], "\"")]
           ELSE NoData
    [] OTHER -> [rdata |-> rdata]

\* The convenience attributes after the reset at the top of
\* setComputedAttributes.
ZeroAttributes ==
  [address |-> <<>>, target |-> <<>>, priority |-> 0, weight |-> 0, port |-> 0,
   text |-> <<>>, flags |-> 0, tag |-> <<>>, value |-> <<>>]

\* The attribute is never overwritten with the parsed number.
IntOrDefault(p, dflt) == dflt

\* if v, err := parseInt64(..); err == nil { attribute = v }
IntOr(p, dflt) == IF p.ok THEN p.v ELSE dflt

\* setComputedAttributes: the convenience attributes of a model of type
\* recordType, from the first element of records.
setComputedAttributes(recordType, records) ==
  LET z == ZeroAttributes IN
  IF Len(records) = 0 THEN z
  ELSE
    LET rdata == records[1] IN
    CASE recordType \in {"A", "AAAA"} -> [z EXCEPT !.address = rdata]
      [] recordType \in {"CNAME", "DNAME", "NS", "PTR"} -> [z EXCEPT !.target = rdata]
      [] recordType = "TXT" -> [z EXCEPT !.text = Trim(rdata, "\"")]
      [] recordType = "MX" ->
           LET parts == SplitN(rdata, " ", 2) IN
           IF Len(parts) = 2
             THEN [z EXCEPT !.priority = IntOr(parseInt64(parts[1]), 0),
                            !.target = parts[2]]
             ELSE z
      [] recordType = "SRV" ->
           LET parts == SplitN(rdata, " ", 4) IN
           IF Len(parts) = 4
             THEN [z EXCEPT !.priority = IntOr(parseInt64(parts[1]), 0),
                            !.weight = IntOr(parseInt64(parts[2]), 0),
                            !.port = IntOr(parseInt64(parts[3]), 0),
                            !.target = parts[4]]
             ELSE z
      [] recordType = "CAA" ->
           LET parts == SplitN(rdata, " ", 3) IN
           IF Len(parts) = 3
             THEN [z EXCEPT !.flags = IntOr(parseInt64(parts[1]), 0),
                            !.tag = parts[2],
                            !.value = Trim(parts[3], "\"")]
             ELSE z
      [] OTHER -> z

\* The id Create writes: zone/name/type.
RecordID(recordType) == Zone \o <<"/">> \o Name \o <<"/">> \o TypeText(recordType)

----------------------------------------------------------------------------
\* The directory (the BIND9 REST API behind the client)

\* A response of the directory: the HTTP status, and whether the body text
\* of an error happens to contain "404" or "not found".
OK == [code |-> 200, nf |-> FALSE]
E404 == [code |-> 404, nf |-> TRUE]
E409 == [code |-> 409, nf |-> FALSE]
E500 == [code |-> 500, nf |-> FALSE]
E500nf == [code |-> 500, nf |-> TRUE]

\* parseResponse: a status of 400 or more is returned as the error
\* "API error <status>: <body>".
IsErr(r) == r.code >= 400

\* strings.Contains(err.Error(), "404") || strings.Contains(err.Error(), "not found")
ErrIsNotFound(r) == IsErr(r) /\ (r.code = 404 \/ r.nf)

\* The rdata text under which the directory files a created record.
ServerRData(recordType, data) ==
  CASE recordType \in {"A", "AAAA"} -> data.address
    [] recordType \in {"CNAME", "DNAME"} -> data.target
    [] recordType = "MX" -> data.preference \o <<" ">> \o data.exchange

\* The answers the directory can give to a create request for a value it
\* holds (present) or does not hold.
CreateResponses(present) ==
  {OK, E500} \cup (IF present THEN {E409} ELSE {})

\* The answers the directory can give to a delete request.
DeleteResponses(present) ==
  {OK, E500, E500nf} \cup (IF present THEN {} ELSE {E404})

----------------------------------------------------------------------------
\* State

VARIABLES
  rtype,   \* the type attribute of the resource (RequiresReplace: fixed)
  state,   \* the Terraform state of the resource
  dir,     \* the rdata values the directory holds for the identity
  dirTTL,  \* the TTL of the identity's record set in the directory
  pc,      \* the handler that is running, "idle" between handlers
  op,      \* the running (or, when idle, the last) handler call
  idx,     \* position of the running handler in its request loop
  reqs,    \* the requests the running (or last) handler has sent
  diag,    \* resp.Diagnostics.HasError() of the running (or last) handler
  zstate,  \* the Terraform state of the bind9_zone resource
  zplan,   \* the plan of the last zone handler call
  zreqs,   \* the requests the last zone handler call has sent
  zdiag,   \* resp.Diagnostics.HasError() of the last zone handler call
  call,    \* the last call of a codec function: its arguments and result
  client   \* the API client: its fields and the doRequest calls running on it

vars == <<rtype, state, dir, dirTTL, pc, op, idx, reqs, diag,
          zstate, zplan, zreqs, zdiag, call, client>>

\* What the handlers of the record resource leave alone.
others == <<zstate, zplan, zreqs, zdiag, call, client>>

\* What the zone handlers and the codec functions leave alone.
recordVars == <<rtype, state, dir, dirTTL, pc, op, idx, reqs, diag, client>>

\* What the API client's own steps leave alone.
resourceVars == <<rtype, state, dir, dirTTL, pc, op, idx, reqs, diag,
                  zstate, zplan, zreqs, zdiag, call>>

\* The goroutines in which Terraform runs handlers on the one client.
Procs == {"p1", "p2"}

\* A goroutine that is not inside doRequest.  hdr is the authentication
\* header of its last request, res what doRequest returned.
IdleCall == [pc |-> "idle", hdr |-> "none", res |-> "none"]

\* The client before NewClient has run.
NoClient ==
  [made |-> FALSE, apiKey |-> FALSE, username |-> FALSE, token |-> "",
   calls |-> [p \in Procs |-> IdleCall]]

NoZonePlan == [nameservers |-> <<>>, ns_addresses |-> <<>>]

\* The zone is not in the Terraform state.
NoZoneState == [exists |-> FALSE, id |-> <<>>, plan |-> NoZonePlan]

NoCall == [fn |-> "none"]

NoPlan == [records |-> <<>>, ttl |-> 0]

\* The resource is not in the Terraform state.
NoState ==
  [exists |-> FALSE, id |-> <<>>, records |-> <<>>, ttl |-> 0,
   attrs |-> ZeroAttributes]

NoOp == [kind |-> "none", plan |-> NoPlan, old |-> <<>>, prev |-> NoPlan]

Plans == {[records |-> rs, ttl |-> t] : rs \in SeqsUpTo(Pool(rtype), MaxLen), t \in TTLs}

Init ==
  /\ rtype \in Types
  /\ state = NoState
  /\ dir = {}
  /\ dirTTL = 3600
  /\ pc = "idle"
  /\ op = NoOp
  /\ idx = 1
  /\ reqs = <<>>
  /\ diag = FALSE
  /\ zstate = NoZoneState
  /\ zplan = NoZonePlan
  /\ zreqs = <<>>
  /\ zdiag = FALSE
  /\ call = NoCall
  /\ client = NoClient

\* The plan of the handler that has just returned, when that handler was an
\* Update that reported no error.
LastUpdatePlan ==
  IF op.kind = "update" /\ ~diag THEN op.plan ELSE NoPlan

\* A handler is entered: the plan and the prior state's records list are
\* read (req.Plan.Get, req.State.Get, ElementsAs).
Enter(kind, plan) ==
  /\ pc = "idle"
  /\ pc' = kind
  /\ op' = [kind |-> kind, plan |-> plan, old |-> state.records,
            prev |-> LastUpdatePlan]
  /\ idx' = 1
  /\ reqs' = <<>>
  /\ diag' = FALSE
  /\ UNCHANGED <<rtype, others, state, dir, dirTTL>>

\* client.CreateRecord answered r to the create of rdata: the request is
\* logged and, unless it failed, the directory holds the record.
SendCreate(rdata, r) ==
  /\ r \in CreateResponses(ServerRData(rtype, buildRecordData(rtype, rdata)) \in dir)
  /\ reqs' = Append(reqs, [kind |-> "create", rdata |-> rdata, res |-> r])
  /\ IF r = OK
       THEN /\ dir' = dir \cup {ServerRData(rtype, buildRecordData(rtype, rdata))}
            /\ dirTTL' = op.plan.ttl
       ELSE UNCHANGED <<dir, dirTTL>>

\* client.DeleteRecord answered r to the delete of rdata.
SendDelete(rdata, r) ==
  /\ r \in DeleteResponses(rdata \in dir)
  /\ reqs' = Append(reqs, [kind |-> "delete", rdata |-> rdata, res |-> r])
  /\ dir' = IF r = OK THEN dir \ {rdata} ELSE dir
  /\ UNCHANGED dirTTL

\* SavedState with the prior state's records list kept in place of the plan's.
SavedStateKeepsOld(plan, id) ==
  [exists |-> TRUE, id |-> id, records |-> state.records,
   ttl |-> plan.ttl, attrs |-> setComputedAttributes(rtype, state.records)]

\* The model a handler saves with resp.State.Set(ctx, plan): the plan, its
\* id, and the convenience attributes of its records.
SavedState(plan, id) ==
  [exists |-> TRUE, id |-> id, records |-> plan.records,
   ttl |-> plan.ttl, attrs |-> setComputedAttributes(rtype, plan.records)]

----------------------------------------------------------------------------
\* RecordResource.Create

BeginCreate ==
  /\ ~state.exists
  /\ \E plan \in Plans : Enter("create", plan)

\* CreateFails with the values created so far deleted again before returning.
CreateFailsRollback(rdata, r) ==
  LET created == {reqs[i].rdata : i \in {j \in 1..Len(reqs) : reqs[j].res = OK}}
      undo == [i \in 1..Len(reqs) |-> [kind |-> "delete", rdata |-> reqs[i].rdata, res |-> OK]]
  IN
  /\ IsErr(r)
  /\ r \in CreateResponses(ServerRData(rtype, buildRecordData(rtype, rdata)) \in dir)
  /\ reqs' = Append(reqs, [kind |-> "create", rdata |-> rdata, res |-> r]) \o undo
  /\ dir' = dir \ created
  /\ diag' = TRUE
  /\ pc' = "idle"
  /\ UNCHANGED <<rtype, others, state, op, idx, dirTTL>>

\* A create request failed: the error is added to the diagnostics and the
\* handler returns; nothing is saved.
CreateFails(rdata, r) ==
  /\ IsErr(r)
  /\ SendCreate(rdata, r)
  /\ diag' = TRUE
  /\ pc' = "idle"
  /\ UNCHANGED <<rtype, others, state, op, idx>>

CreateStep ==
  /\ pc = "create"
  /\ IF idx <= Len(op.plan.records)
       THEN \E r \in {OK, E409, E500} :
              \/ /\ ~IsErr(r)
                 /\ SendCreate(op.plan.records[idx], r)
                 /\ idx' = idx + 1
                 /\ UNCHANGED <<rtype, others, state, pc, op, diag>>
              \/ CreateFails(op.plan.records[idx], r)
       ELSE /\ state' = SavedState(op.plan, RecordID(rtype))
            /\ pc' = "idle"
            /\ UNCHANGED <<rtype, others, dir, dirTTL, op, idx, reqs, diag>>

----------------------------------------------------------------------------
\* RecordResource.Update

SelectKind(kind, rs) == [i \in 1..Len(rs) |-> [kind |-> kind, rdata |-> rs[i]]]

\* UpdateActions without the membership tests: every old value is deleted
\* and every new value created.
UpdateActionsReplaceAll(old, new) ==
  SelectKind("delete", old) \o SelectKind("create", new)

\* UpdateActions without its first loop: nothing is deleted.
UpdateActionsNoDelete(old, new) ==
  SelectKind("create", SelectSeq(new, LAMBDA v : v \notin Range(old)))

\* The requests Update sends, in order: first a delete for every element of
\* the old list that no element of the new list equals, then a create for
\* every element of the new list that no element of the old list equals.
UpdateActions(old, new) ==
  SelectKind("delete", SelectSeq(old, LAMBDA v : v \notin Range(new)))
    \o SelectKind("create", SelectSeq(new, LAMBDA v : v \notin Range(old)))

BeginUpdate ==
  /\ state.exists
  /\ \E plan \in Plans : Enter("update", plan)

\* Whether Update gives up when DeleteRecord returns the error r: it logs
\* a warning and goes on.
UpdateDeleteFatal(r) == FALSE

\* A create request of Update failed: the error is added to the diagnostics
\* and the handler returns; the state stays the prior state.
UpdateCreateFails(rdata, r) ==
  /\ IsErr(r)
  /\ SendCreate(rdata, r)
  /\ diag' = TRUE
  /\ pc' = "idle"
  /\ UNCHANGED <<rtype, others, state, op, idx>>

UpdateStep ==
  /\ pc = "update"
  /\ LET acts == UpdateActions(op.old, op.plan.records) IN
     IF idx <= Len(acts)
       THEN \E r \in {OK, E404, E409, E500, E500nf} :
              \/ /\ acts[idx].kind = "delete"
                 /\ SendDelete(acts[idx].rdata, r)
                 /\ IF IsErr(r) /\ UpdateDeleteFatal(r)
                      THEN diag' = TRUE /\ pc' = "idle" /\ UNCHANGED idx
                      ELSE idx' = idx + 1 /\ UNCHANGED <<pc, diag>>
                 /\ UNCHANGED <<rtype, others, state, op>>
              \/ /\ acts[idx].kind = "create"
                 /\ ~IsErr(r)
                 /\ SendCreate(acts[idx].rdata, r)
                 /\ idx' = idx + 1
                 /\ UNCHANGED <<rtype, others, state, pc, op, diag>>
              \/ /\ acts[idx].kind = "create"
                 /\ UpdateCreateFails(acts[idx].rdata, r)
       ELSE /\ state' = SavedState(op.plan, state.id)
            /\ pc' = "idle"
            /\ UNCHANGED <<rtype, others, dir, dirTTL, op, idx, reqs, diag>>

----------------------------------------------------------------------------
\* RecordResource.Delete

BeginDelete ==
  /\ state.exists
  /\ Enter("delete", NoPlan)

\* DeleteFatal without the test for "404" and "not found".
DeleteFatalAlways(r) == TRUE

\* Whether Delete gives up when DeleteRecord returns the error r.
DeleteFatal(r) == ~ErrIsNotFound(r)

DeleteStep ==
  /\ pc = "delete"
  /\ IF idx <= Len(op.old)
       THEN \E r \in {OK, E404, E500, E500nf} :
              /\ SendDelete(op.old[idx], r)
              /\ IF IsErr(r) /\ DeleteFatal(r)
                   THEN diag' = TRUE /\ pc' = "idle" /\ UNCHANGED idx
                   ELSE idx' = idx + 1 /\ UNCHANGED <<pc, diag>>
              /\ UNCHANGED <<rtype, others, state, op>>
       ELSE /\ state' = NoState
            /\ pc' = "idle"
            /\ UNCHANGED <<rtype, others, dir, dirTTL, op, idx, reqs, diag>>

----------------------------------------------------------------------------
\* RecordResource.Read

\* The lists client.GetRecords can return for the set d of rdata values.
Listings(d) == {s \in [1..Cardinality(d) -> d] : Range(s) = d}

\* StateAfterRead with the resource removed when the list is empty.
StateAfterReadRemoves(records) ==
  IF Len(records) = 0
    THEN NoState
    ELSE [state EXCEPT !.records = records,
                       !.ttl = dirTTL,
                       !.attrs = setComputedAttributes(rtype, records)]

\* The state Read saves when GetRecords returned records without an error:
\* the state as it was for an empty list, else the state with the records,
\* the TTL of the first of them and the convenience attributes.
StateAfterRead(records) ==
  IF Len(records) = 0
    THEN state
    ELSE [state EXCEPT !.records = records,
                       !.ttl = dirTTL,
                       !.attrs = setComputedAttributes(rtype, records)]

Read ==
  /\ pc = "idle"
  /\ state.exists
  /\ op' = [kind |-> "read", plan |-> NoPlan, old |-> state.records, prev |-> NoPlan]
  /\ \E r \in {OK, E404, E500, E500nf} :
       /\ reqs' = <<[kind |-> "get", rdata |-> <<>>, res |-> r]>>
       /\ IF IsErr(r)
            THEN IF ErrIsNotFound(r)
                   THEN state' = NoState /\ diag' = FALSE
                   ELSE diag' = TRUE /\ UNCHANGED state
            ELSE /\ diag' = FALSE
                 /\ \E records \in Listings(dir) :
                      state' = StateAfterRead(records)
  /\ UNCHANGED <<rtype, others, dir, dirTTL, pc, idx>>

----------------------------------------------------------------------------
Next ==
  \/ BeginCreate
  \/ CreateStep
  \/ BeginUpdate
  \/ UpdateStep
  \/ BeginDelete
  \/ DeleteStep
  \/ Read

Spec == Init /\ [][Next]_vars

----------------------------------------------------------------------------
\* ZoneResource.Create

\* Most nameservers of a zone plan.
MaxNS == 2

NS1In == <<"n", "s", "1", ".", "e", "x", "a", "m", "p", "l", "e", ".", "c", "o", "m">>
NS1Out == <<"n", "s", "1", ".", "e", "x", "a", "m", "p", "l", "e", ".", "n", "e", "t">>
GlueAddr == <<"1", "0", ".", "0", ".", "1", ".", "1", "0">>

\* The hostnames a zone plan names: one inside the zone, the zone apex
\* itself, and one outside the zone.
Hosts == {NS1In, Zone, NS1Out}

\* The plans of a zone named Zone: its nameservers list and its
\* ns_addresses map (a map without keys when the attribute is null).
ZonePlans ==
  {[nameservers |-> ns, ns_addresses |-> [h \in K |-> GlueAddr]] :
     ns \in SeqsUpTo(Hosts, MaxNS), K \in SUBSET Hosts}

\* ZoneResource.Create: the create request is built from the plan and sent
\* with client.CreateZone; an error answer is added to the diagnostics,
\* any other answer makes the plan the state, with the zone name as id.
ZoneCreate ==
  /\ ~zstate.exists
  /\ \E plan \in ZonePlans, r \in {OK, E409, E500} :
       /\ zplan' = plan
       /\ zreqs' = <<[method |-> "POST", name |-> Zone,
                     nameservers |-> plan.nameservers,
                     ns_addresses |-> plan.ns_addresses, res |-> r]>>
       /\ zdiag' = IsErr(r)
       /\ zstate' = IF IsErr(r)
                      THEN zstate
                      ELSE [exists |-> TRUE, id |-> Zone, plan |-> plan]
  /\ UNCHANGED <<recordVars, call>>

\* ZoneResource.Delete: client.DeleteZone for the zone of the state; an
\* error answer is added to the diagnostics and the state is kept.
ZoneDelete ==
  /\ zstate.exists
  /\ \E r \in {OK, E404, E500} :
       /\ zreqs' = <<[method |-> "DELETE", name |-> Zone,
                     nameservers |-> <<>>, ns_addresses |-> <<>>, res |-> r]>>
       /\ zdiag' = IsErr(r)
       /\ zstate' = IF IsErr(r) THEN zstate ELSE NoZoneState
  /\ zplan' = NoZonePlan
  /\ UNCHANGED <<recordVars, call>>

\* The plans of an Update of a zone whose state holds prior: the
\* nameservers or the ns_addresses of the configuration were edited.
ZoneUpdatePlans(prior) ==
  {p \in ZonePlans : \/ p.nameservers = prior.nameservers
                     \/ p.ns_addresses = prior.ns_addresses}

\* ZoneResource.Update: the zone is reloaded with client.ReloadZone and read
\* back with client.GetZone; an error of either is added to the diagnostics,
\* otherwise the plan becomes the state.
ZoneUpdate ==
  /\ zstate.exists
  /\ \E plan \in ZoneUpdatePlans(zstate.plan), r1 \in {OK, E404, E500},
        r2 \in {OK, E500} :
       LET reload == [method |-> "POST", name |-> Zone \o <<"/", "r", "e", "l", "o", "a", "d">>,
                      nameservers |-> <<>>, ns_addresses |-> <<>>, res |-> r1]
           get == [method |-> "GET", name |-> Zone, nameservers |-> <<>>,
                   ns_addresses |-> <<>>, res |-> r2]
       IN
       /\ zplan' = plan
       /\ zreqs' = IF IsErr(r1) THEN <<reload>> ELSE <<reload, get>>
       /\ zdiag' = (IsErr(r1) \/ IsErr(r2))
       /\ zstate' = IF IsErr(r1) \/ IsErr(r2) THEN zstate
                     ELSE [exists |-> TRUE, id |-> zstate.id, plan |-> plan]
  /\ UNCHANGED <<recordVars, call>>

NextZone ==
  \/ ZoneCreate
  \/ ZoneDelete
  \/ ZoneUpdate

InitZone == Init /\ rtype = "A"

SpecZone == InitZone /\ [][NextZone]_vars

----------------------------------------------------------------------------
\* Calls of the codec functions on their own.  The functions keep nothing
\* between calls, so a behaviour is one call and its result.

\* Most space-separated fields of an rdata value handed to Create.
MaxFields == 4

\* Most '/'-separated segments of an import identifier.
MaxSegs == 4

\* Longest text of a TXT record or value of a CAA record.
MaxText == 3

SIP == <<"s", "i", "p", ".", "e", "x", "a", "m", "p", "l", "e", ".", "c", "o", "m", ".">>
ISSUE == <<"i", "s", "s", "u", "e">>

\* strings.Split(s, sep) for a one-character sep: every piece.
RECURSIVE Split(_, _)
Split(s, sep) ==
  LET i == IndexFrom(s, sep, 1) IN
  IF i = 0 THEN <<s>>
  ELSE <<SubSeq(s, 1, i - 1)>> \o Split(SubSeq(s, i + 1, Len(s)), sep)

\* The pieces joined again, sep between them.
RECURSIVE Join(_, _)
Join(pieces, sep) ==
  IF Len(pieces) = 0 THEN <<>>
  ELSE IF Len(pieces) = 1 THEN pieces[1]
  ELSE pieces[1] \o <<sep>> \o Join(Tail(pieces), sep)

\* The types whose rdata the codec takes apart, and one it passes through.
CodecTypes == {"A", "CNAME", "MX", "SRV", "CAA", "TXT"}

\* The fields rdata values are put together from: a number, a name, a
\* quoted string.
FieldTokens == {<<"1", "0">>, <<"m", "x">>, <<"\"", "a", "\"">>}

\* The rdata values a configuration can hand to Create: zero to MaxFields
\* fields with one space between them (no field: the empty string).
RawValues == {Join(fs, " ") : fs \in SeqsUpTo(FieldTokens, MaxFields)}

\* The body of Create's loop for one element of records: the create
\* request is built with buildRecordData and handed to client.CreateRecord.
CreateValue ==
  /\ call = NoCall
  /\ \E t \in CodecTypes, raw \in RawValues, r \in {OK, E500} :
    /\ call' = [fn |-> "create", type |-> t, raw |-> raw,
                data |-> buildRecordData(t, raw), sent |-> TRUE,
                error |-> IsErr(r)]
    /\ UNCHANGED <<recordVars, zstate, zplan, zreqs, zdiag>>

\* A split that stops after three parts, the third keeping the rest.
ImportPartsN(id) == SplitN(id, "/", 3)

\* strings.Split(req.ID, "/") of ImportState.
ImportParts(id) == Split(id, "/")

SegTokens == {<<>>, <<"e", "x">>, <<"w">>, <<"A">>}

\* The identifiers handed to terraform import: one to MaxSegs segments.
ImportIDs == {Join(segs, "/") : segs \in SeqsUpTo(SegTokens, MaxSegs) \ {<<>>}}

NoAttributes == [id |-> <<>>, zone |-> <<>>, name |-> <<>>, type |-> <<>>]

\* RecordResource.ImportState: an identifier that does not split into three
\* parts is an error; otherwise id, zone, name and type are set.
ImportState ==
  /\ call = NoCall
  /\ \E id \in ImportIDs :
    LET parts == ImportParts(id) IN
    /\ call' = IF Len(parts) # 3
                 THEN [fn |-> "import", id |-> id, error |-> TRUE,
                       set |-> FALSE, attrs |-> NoAttributes]
                 ELSE [fn |-> "import", id |-> id, error |-> FALSE,
                       set |-> TRUE,
                       attrs |-> [id |-> id, zone |-> parts[1],
                                  name |-> parts[2], type |-> parts[3]]]
    /\ UNCHANGED <<recordVars, zstate, zplan, zreqs, zdiag>>

\* The decimal text of a natural number.
RECURSIVE IntText(_)
IntText(n) ==
  LET d == <<"0", "1", "2", "3", "4", "5", "6", "7", "8", "9">>[(n % 10) + 1] IN
  IF n < 10 THEN <<d>> ELSE IntText(n \div 10) \o <<d>>

\* A string field is put in double quotes when it holds whitespace or a
\* double quote.
Quote(s) ==
  IF \E i \in 1..Len(s) : s[i] \in {" ", "\""}
    THEN <<"\"">> \o s \o <<"\"">>
    ELSE s

\* The texts of string fields: up to MaxText characters, letters, spaces
\* and double quotes.
Texts == SeqsUpTo({"a", " ", "\""}, MaxText)

FieldInts == {0, 10, 60, 5060}

\* The field values of a record, per type.
Fields(t) ==
  CASE t = "A" -> {[address |-> A1]}
    [] t = "CNAME" -> {[target |-> CN1]}
    [] t = "MX" -> {[preference |-> n, exchange |-> x] :
                      n \in FieldInts, x \in {SIP, <<"m", "x">>}}
    [] t = "SRV" -> {[priority |-> n, weight |-> w, port |-> q, target |-> SIP] :
                       n \in FieldInts, w \in FieldInts, q \in FieldInts}
    [] t = "CAA" -> {[flags |-> n, tag |-> ISSUE, value |-> v] :
                       n \in {0, 10}, v \in Texts}
    [] t = "TXT" -> {[text |-> v] : v \in Texts}

\* The rdata text of field values: the fields in the order of the type's
\* grammar, one space between them, string fields quoted where needed.
Encode(t, f) ==
  CASE t = "A" -> f.address
    [] t = "CNAME" -> f.target
    [] t = "MX" -> IntText(f.preference) \o <<" ">> \o f.exchange
    [] t = "SRV" -> IntText(f.priority) \o <<" ">> \o IntText(f.weight)
                      \o <<" ">> \o IntText(f.port) \o <<" ">> \o f.target
    [] t = "CAA" -> IntText(f.flags) \o <<" ">> \o f.tag \o <<" ">> \o Quote(f.value)
    [] t = "TXT" -> Quote(f.text)

\* The rdata of field values is taken apart again: by setComputedAttributes
\* into the convenience attributes, by buildRecordData into the data map.
Decode ==
  /\ call = NoCall
  /\ \E t \in CodecTypes :
    \E f \in Fields(t) :
      /\ call' = [fn |-> "decode", type |-> t, fields |-> f,
                  raw |-> Encode(t, f),
                  attrs |-> setComputedAttributes(t, <<Encode(t, f)>>),
                  data |-> buildRecordData(t, Encode(t, f))]
      /\ UNCHANGED <<recordVars, zstate, zplan, zreqs, zdiag>>

\* The string field buildRecordData strips the quotes from, for TXT the
\* whole rdata and for CAA its third part.
Stripped(t, raw) ==
  IF t = "TXT" THEN buildRecordData(t, raw).text
  ELSE buildRecordData(t, <<"0", " ">> \o ISSUE \o <<" ">> \o raw).value

\* The quote stripping is applied to a text, and again to its result.
Normalize ==
  /\ call = NoCall
  /\ \E t \in {"TXT", "CAA"}, x \in Texts :
    /\ call' = [fn |-> "normalize", type |-> t, raw |-> x,
                once |-> Stripped(t, x),
                twice |-> Stripped(t, Stripped(t, x))]
    /\ UNCHANGED <<recordVars, zstate, zplan, zreqs, zdiag>>

\* The two loops of Update for a state and a plan of one TXT value each.
Diff ==
  /\ call = NoCall
  /\ \E x \in Texts, y \in Texts :
    /\ call' = [fn |-> "diff", type |-> "TXT", old |-> x, new |-> y,
                acts |-> UpdateActions(<<x>>, <<y>>)]
    /\ UNCHANGED <<recordVars, zstate, zplan, zreqs, zdiag>>

\* client.DeleteRecord: DELETE on the path of zone, name and type, with
\* the query parameter rdata (the value, URL-escaped) unless rdata is the
\* empty string.
DeleteRequest(recordType, rdata) ==
  [method |-> "DELETE", zone |-> Zone, name |-> Name, type |-> recordType,
   query |-> IF rdata # <<>> THEN [rdata |-> rdata] ELSE NoData]

\* The loop of Delete (and the first loop of an Update to a plan without
\* records) over the records list of the state, which may hold any
\* strings: one DeleteRecord call per element.
DeleteValues ==
  /\ call = NoCall
  /\ \E kind \in {"delete", "update"}, t \in Types :
       \E old \in SeqsUpTo(Pool(t) \cup {<<>>}, MaxLen) :
         call' = [fn |-> "deletes", kind |-> kind, type |-> t, old |-> old,
                  requests |-> [i \in 1..Len(old) |-> DeleteRequest(t, old[i])]]
  /\ UNCHANGED <<recordVars, zstate, zplan, zreqs, zdiag>>

NextCodec ==
  \/ CreateValue
  \/ ImportState
  \/ Decode
  \/ Normalize
  \/ Diff
  \/ DeleteValues

InitCodec == Init /\ rtype = "A"

SpecCodec == InitCodec /\ [][NextCodec]_vars

----------------------------------------------------------------------------
\* The identity of a record resource: planning and import

\* A reverse zone of a classless delegation (RFC 2317) and a record name in
\* one: neither zone nor name has a validator, both may hold a '/'.
SlashZone == <<"0", "/", "2", "5", ".", "a", "r", "p", "a">>
SlashName == <<"1", "/", "2">>

\* The values of zone, name and type a configuration can give.
Identities ==
  {[zone |-> z, name |-> n, type |-> t] :
     z \in {Zone, SlashZone}, n \in {Name, SlashName}, t \in Types}

\* fmt.Sprintf("%s/%s/%s", zone, name, type): the id Create writes.
RecordIDOf(zone, name, recordType) ==
  zone \o <<"/">> \o name \o <<"/">> \o TypeText(recordType)

\* The resource as Terraform holds it before an apply: absent, or created
\* under an identity.
NoIdentity == [exists |-> FALSE, zone |-> <<>>, name |-> <<>>, type |-> "", id |-> <<>>]

PriorIdentities ==
  {NoIdentity} \cup
  {[exists |-> TRUE, zone |-> i.zone, name |-> i.name, type |-> i.type,
    id |-> RecordIDOf(i.zone, i.name, i.type)] : i \in Identities}

\* The attributes with the plan modifier RequiresReplace, without name.
RequiresReplaceNoName == {"zone", "type"}

\* The attributes of the schema with the plan modifier RequiresReplace.
RequiresReplace == {"zone", "name", "type"}

\* The handlers Terraform calls to take the resource from prior to config:
\* Create when there is no resource, Delete then Create when an attribute
\* with RequiresReplace differs, Update otherwise.
PlanSteps(prior, config) ==
  IF ~prior.exists
    THEN <<[kind |-> "create", zone |-> config.zone, name |-> config.name,
            type |-> config.type]>>
  ELSE IF \E a \in RequiresReplace : prior[a] # config[a]
    THEN <<[kind |-> "delete", zone |-> prior.zone, name |-> prior.name,
            type |-> prior.type],
           [kind |-> "create", zone |-> config.zone, name |-> config.name,
            type |-> config.type]>>
  ELSE <<[kind |-> "update", zone |-> config.zone, name |-> config.name,
          type |-> config.type]>>

\* The id of the state after the last handler: Create writes zone/name/type
\* of its plan, Update saves the plan, whose id is the state's
\* (UseStateForUnknown).
PlannedID(prior, config) ==
  IF PlanSteps(prior, config)[Len(PlanSteps(prior, config))].kind = "update"
    THEN prior.id
    ELSE RecordIDOf(config.zone, config.name, config.type)

\* A configuration is applied to the resource.
PlanApply ==
  /\ call = NoCall
  /\ \E prior \in PriorIdentities, config \in Identities :
       call' = [fn |-> "plan", prior |-> prior, config |-> config,
                steps |-> PlanSteps(prior, config),
                saved |-> [zone |-> config.zone, name |-> config.name,
                           type |-> config.type,
                           id |-> PlannedID(prior, config)]]
  /\ UNCHANGED <<recordVars, zstate, zplan, zreqs, zdiag>>

\* The id Create wrote for an identity is handed to ImportState.
ImportCreated ==
  /\ call = NoCall
  /\ \E i \in Identities :
       LET id == RecordIDOf(i.zone, i.name, i.type)
           parts == ImportParts(id)
       IN call' = IF Len(parts) # 3
                    THEN [fn |-> "reimport", created |-> i, id |-> id,
                          error |-> TRUE, attrs |-> NoAttributes]
                    ELSE [fn |-> "reimport", created |-> i, id |-> id,
                          error |-> FALSE,
                          attrs |-> [id |-> id, zone |-> parts[1],
                                     name |-> parts[2], type |-> parts[3]]]
  /\ UNCHANGED <<recordVars, zstate, zplan, zreqs, zdiag>>

\* The arguments a configuration gives a bind9_dnssec_key.
KeyConfigs ==
  {[zone |-> z, key_type |-> k, algorithm |-> a, bits |-> b, ttl |-> t,
    sign_zone |-> s] :
     z \in {Zone, SlashZone}, k \in {"KSK", "ZSK"}, a \in {8, 13},
     b \in {2048, 4096}, t \in TTLs, s \in BOOLEAN}

\* The attributes of the key schema with the plan modifier RequiresReplace.
KeyRequiresReplace == {"zone", "key_type"}

\* The key the server holds after CreateDNSSECKey for a plan.
ServerKey(plan) ==
  [zone |-> plan.zone, key_type |-> plan.key_type,
   algorithm |-> plan.algorithm, bits |-> plan.bits, ttl |-> plan.ttl]

\* The handlers Terraform calls to take a key from the arguments prior to
\* the arguments config: Delete then Create when an attribute with
\* RequiresReplace differs, Update otherwise.
KeySteps(prior, config) ==
  IF \E a \in KeyRequiresReplace : prior[a] # config[a]
    THEN <<"delete", "create">>
    ELSE <<"update">>

\* A changed configuration is applied to a key that was created with the
\* arguments prior.  DNSSECKeyResource.Update sends at most SignZone and
\* saves the plan; Delete and Create replace the key on the server.
KeyApply ==
  /\ call = NoCall
  /\ \E prior \in KeyConfigs, config \in KeyConfigs :
       /\ prior # config
       /\ call' = [fn |-> "keyapply", prior |-> prior, config |-> config,
                   steps |-> KeySteps(prior, config),
                   requests |-> IF KeySteps(prior, config) = <<"update">>
                                  THEN IF config.sign_zone THEN <<"SignZone">>
                                       ELSE <<>>
                                  ELSE <<"DeleteDNSSECKey", "CreateDNSSECKey">>
                                         \o (IF config.sign_zone
                                               THEN <<"SignZone">> ELSE <<>>),
                   saved |-> config,
                   server |-> IF KeySteps(prior, config) = <<"update">>
                                THEN ServerKey(prior)
                                ELSE ServerKey(config)]
  /\ UNCHANGED <<recordVars, zstate, zplan, zreqs, zdiag>>

NextPlan ==
  \/ PlanApply
  \/ ImportCreated
  \/ KeyApply

InitPlan == Init /\ rtype = "A"

SpecPlan == InitPlan /\ [][NextPlan]_vars

----------------------------------------------------------------------------
\* The API client

\* The access tokens the server hands out.
Tokens == {"t1", "t2"}

\* NewClient: the fields are set from the provider configuration (an API
\* key or not, a username with password or not); with a username and no API
\* key a first token is fetched, and a failure to get one fails NewClient.
NewClient ==
  /\ ~client.made
  /\ \E k \in BOOLEAN, u \in BOOLEAN :
       IF ~k /\ u
         THEN \E t \in Tokens :
                client' = [client EXCEPT !.made = TRUE, !.apiKey = k,
                                         !.username = u, !.token = t]
         ELSE client' = [client EXCEPT !.made = TRUE, !.apiKey = k,
                                       !.username = u]
  /\ UNCHANGED resourceVars

\* A handler calls doRequest: the request is built.
StartRequest(p) ==
  /\ client.made
  /\ client.calls[p].pc = "idle"
  /\ client' = [client EXCEPT !.calls[p] = [pc |-> "header", hdr |-> "none",
                                            res |-> "none"]]
  /\ UNCHANGED resourceVars

\* doRequest sets the authentication header: the API key if there is one,
\* else the token if c.token is not empty.
SetHeader(p) ==
  /\ client.calls[p].pc = "header"
  /\ client' = [client EXCEPT
                  !.calls[p].pc = "do",
                  !.calls[p].hdr = IF client.apiKey THEN "key"
                                   ELSE IF client.token # "" THEN client.token
                                   ELSE "none"]
  /\ UNCHANGED resourceVars

\* c.httpClient.Do answers: a transport error and every status but 401 are
\* returned to the caller; 401 with a username leads to authenticate.
Do(p) ==
  /\ client.calls[p].pc = "do"
  /\ \E r \in {"200", "401", "500", "err"} :
       client' = IF r = "401" /\ client.username
                   THEN [client EXCEPT !.calls[p].pc = "auth"]
                   ELSE [client EXCEPT !.calls[p].pc = "idle",
                                       !.calls[p].res = r]
  /\ UNCHANGED resourceVars

\* authenticate posts the username and password: any failure makes
\* doRequest return the error, a 200 carries a token.
Authenticate(p) ==
  /\ client.calls[p].pc = "auth"
  /\ \/ client' = [client EXCEPT !.calls[p].pc = "idle",
                                 !.calls[p].res = "autherr"]
     \/ \E t \in Tokens :
          client' = [client EXCEPT !.calls[p].pc = "store",
                                   !.calls[p].res = t]
  /\ UNCHANGED resourceVars

\* c.token = tokenResp.AccessToken, then doRequest calls itself again.
StoreToken(p) ==
  /\ client.calls[p].pc = "store"
  /\ client' = [client EXCEPT !.token = client.calls[p].res,
                              !.calls[p].pc = "header",
                              !.calls[p].res = "none"]
  /\ UNCHANGED resourceVars

\* The steps of the doRequest call of goroutine p.
RequestStep(p) ==
  \/ SetHeader(p)
  \/ Do(p)
  \/ Authenticate(p)
  \/ StoreToken(p)

NextClient ==
  \/ NewClient
  \/ \E p \in Procs : StartRequest(p)
  \/ \E p \in Procs : RequestStep(p)

InitClient == Init /\ rtype = "A"

SpecClient == InitClient /\ [][NextClient]_vars

\* A goroutine inside doRequest goes on running; what the server answers
\* is up to the server.
SpecClientFair == SpecClient /\ \A p \in Procs : WF_vars(RequestStep(p))

----------------------------------------------------------------------------
\* The convenience attributes (Optional and Computed) in plan and state

ForeignAddr == <<"9", ".", "9", ".", "9", ".", "9">>

\* What a configuration can supply for the convenience attributes: nothing,
\* or values that are not those of the records.
GivenAttributes ==
  {NoData, [address |-> ForeignAddr], [priority |-> 99, target |-> ForeignAddr],
   [address |-> ForeignAddr, priority |-> 99, target |-> ForeignAddr]}

\* The assignments of setComputedAttributes that find a value in the model
\* leave it there.
ComputedOverKeepsGiven(given, recordType, records) ==
  [a \in DOMAIN ZeroAttributes |->
     IF a \in DOMAIN given THEN given[a]
     ELSE setComputedAttributes(recordType, records)[a]]

\* setComputedAttributes on a model whose convenience attributes hold the
\* values given: each of the nine is assigned, whatever it held.
ComputedOver(given, recordType, records) ==
  setComputedAttributes(recordType, records)

\* The requests of a handler: Create sends one create per element of the
\* plan's records, Update the actions of its two loops, Read none that
\* changes the directory.  A create carries the data map of its rdata.
HandlerRequests(kind, recordType, old, records) ==
  LET acts == CASE kind = "create" -> SelectKind("create", records)
                [] kind = "update" -> UpdateActions(old, records)
                [] OTHER -> <<>>
  IN [i \in 1..Len(acts) |->
        IF acts[i].kind = "create"
          THEN [kind |-> "create", rdata |-> acts[i].rdata,
                data |-> buildRecordData(recordType, acts[i].rdata)]
          ELSE [kind |-> "delete", rdata |-> acts[i].rdata, data |-> NoData]]

\* A handler that succeeds sets the convenience attributes of the model it
\* saves: Create and Update from the plan's records, Read from the records
\* the directory listed (at least one).
SaveComputed ==
  /\ call = NoCall
  /\ \E kind \in {"create", "update", "read"}, t \in Types,
        given \in GivenAttributes :
       \E old \in SeqsUpTo(Pool(t), 1), records \in SeqsUpTo(Pool(t), MaxLen) :
         /\ kind = "read" => records # <<>>
         /\ call' = [fn |-> "save", kind |-> kind, type |-> t, given |-> given,
                     old |-> old, records |-> records,
                     requests |-> HandlerRequests(kind, t, old, records),
                     attrs |-> ComputedOver(given, t, records)]
  /\ UNCHANGED <<recordVars, zstate, zplan, zreqs, zdiag>>

NextView == SaveComputed

InitView == Init /\ rtype = "A"

SpecView == InitView /\ [][NextView]_vars

----------------------------------------------------------------------------
\* Properties

ReqIdx(kind) == {i \in 1..Len(reqs) : reqs[i].kind = kind}

ReqValues(kind) == {reqs[i].rdata : i \in ReqIdx(kind)}

OldSet == Range(op.old)

NewSet == Range(op.plan.records)

Returned(kind) == pc = "idle" /\ op.kind = kind

\* The number of requests the handler of op sends when none of them makes
\* it give up.
PlannedRequests ==
  CASE op.kind = "create" -> Len(op.plan.records)
    [] op.kind = "update" -> Len(UpdateActions(op.old, op.plan.records))
    [] op.kind = "delete" -> Len(op.old)
    [] OTHER -> 0

\* C1: after an Update all of whose requests succeeded, the directory holds
\* exactly the planned records, whatever it held before.
UpdateConvergesDirectory ==
  (Returned("update") /\ ~diag /\ \A i \in 1..Len(reqs) : reqs[i].res = OK)
    => dir = NewSet

\* C2: Update sends no request, delete or create, for a value that is both
\* in the prior state's records list and in the planned records list.
UpdateLeavesCommonValues ==
  op.kind = "update" =>
    \A i \in 1..Len(reqs) : reqs[i].rdata \notin (OldSet \cap NewSet)

UpdateLeavesCommonValuesWitness ==
  /\ Returned("update")
  /\ ~diag
  /\ reqs # <<>>
  /\ OldSet \cap NewSet # {}

\* C3: Update sends delete requests for exactly the values of the old list
\* that are not in the new one and create requests for exactly the values
\* of the new list that are not in the old one (all of them once it has
\* returned without error); for MX with old {MX1, MX2} and new {MX1} the
\* only request is the delete of MX2, and for A with an empty old list and
\* new {A1} the only request is the create of A1.
UpdateSendsExactDifference ==
  op.kind = "update" =>
    /\ ReqValues("delete") \subseteq OldSet \ NewSet
    /\ ReqValues("create") \subseteq NewSet \ OldSet
    /\ (pc = "idle" /\ ~diag) =>
         /\ ReqValues("delete") = OldSet \ NewSet
         /\ ReqValues("create") = NewSet \ OldSet
    /\ (pc = "idle" /\ ~diag /\ rtype = "MX"
          /\ op.old \in {<<MX1, MX2>>, <<MX2, MX1>>}
          /\ op.plan.records = <<MX1>>) =>
         /\ Len(reqs) = 1
         /\ reqs[1].kind = "delete"
         /\ reqs[1].rdata = MX2
    /\ (pc = "idle" /\ ~diag /\ rtype = "A"
          /\ op.old = <<>>
          /\ op.plan.records = <<A1>>) =>
         /\ Len(reqs) = 1
         /\ reqs[1].kind = "create"
         /\ reqs[1].rdata = A1

UpdateSendsExactDifferenceWitness ==
  /\ Returned("update")
  /\ ~diag
  /\ rtype = "MX"
  /\ op.old = <<MX1, MX2>>
  /\ op.plan.records = <<MX1>>
  /\ Len(reqs) = 1

\* C4: in an Update, for CNAME every delete request precedes every create
\* request, and for every other type every create request precedes every
\* delete request.
UpdateOrdersByType ==
  op.kind = "update" =>
    \A i, j \in 1..Len(reqs) :
      i < j =>
        /\ rtype = "CNAME" =>
             ~(reqs[i].kind = "create" /\ reqs[j].kind = "delete")
        /\ rtype # "CNAME" =>
             ~(reqs[i].kind = "delete" /\ reqs[j].kind = "create")

\* C5: an Update or Delete in which a delete request is answered not-found
\* (and no request fails otherwise) reports no error and sends every one of
\* its requests, and then saves the plan (Update) or drops the resource
\* (Delete).
NotFoundDeleteTolerated ==
  (/\ pc = "idle"
   /\ op.kind \in {"update", "delete"}
   /\ \E i \in ReqIdx("delete") : reqs[i].res = E404
   /\ \A i \in 1..Len(reqs) : reqs[i].res \in {OK, E404})
    => /\ ~diag
       /\ Len(reqs) = PlannedRequests
       /\ op.kind = "update" => state.records = op.plan.records
       /\ op.kind = "delete" => ~state.exists

NotFoundDeleteToleratedWitness ==
  /\ Returned("delete")
  /\ ~diag
  /\ Len(reqs) = 2
  /\ reqs[1].res = E404
  /\ reqs[2].res = OK

\* C6: a Create or Update in which a create request is answered Conflict
\* (and no request fails otherwise) reports no error and sends every one
\* of its requests.
ConflictCreateTolerated ==
  (/\ pc = "idle"
   /\ op.kind \in {"create", "update"}
   /\ \E i \in ReqIdx("create") : reqs[i].res = E409
   /\ \A i \in 1..Len(reqs) : reqs[i].res \in {OK, E409})
    => /\ ~diag
       /\ Len(reqs) = PlannedRequests

\* C7: a request of Update that fails otherwise than with NotFound or
\* Conflict is the last request of that Update, and the Update reports an
\* error.
UpdateStopsOnFailure ==
  op.kind = "update" =>
    \A i \in 1..Len(reqs) :
      (IsErr(reqs[i].res) /\ reqs[i].res.code \notin {404, 409})
        => i = Len(reqs) /\ pc = "idle" /\ diag

\* C8: when Create or Update returns with an error, every value it created
\* before is in the records of the state the caller holds and every value
\* it deleted before is not.
FailureLeavesAppliedTracked ==
  (pc = "idle" /\ op.kind \in {"create", "update"} /\ diag) =>
    \A i \in 1..Len(reqs) :
      reqs[i].res = OK =>
        /\ reqs[i].kind = "create" =>
             state.exists /\ reqs[i].rdata \in Range(state.records)
        /\ reqs[i].kind = "delete" =>
             reqs[i].rdata \notin Range(state.records)

\* C9: when Create, Update or Delete returns with an error, the failed
\* request is the last one it sent, no value it created was deleted again
\* nor the reverse, and the directory still holds every value it created
\* and none it deleted.
FailureIsNotRolledBack ==
  (pc = "idle" /\ op.kind \in {"create", "update", "delete"} /\ diag) =>
    /\ IsErr(reqs[Len(reqs)].res)
    /\ Len(reqs) <= PlannedRequests
    /\ \A i, j \in 1..Len(reqs) :
         (i < j /\ reqs[i].res = OK /\ reqs[i].rdata = reqs[j].rdata)
           => reqs[j].kind = reqs[i].kind
    /\ \A i \in 1..Len(reqs) :
         reqs[i].res = OK =>
           IF reqs[i].kind = "create"
             THEN reqs[i].rdata \in dir
             ELSE reqs[i].rdata \notin dir

FailureIsNotRolledBackWitness ==
  /\ Returned("create")
  /\ diag
  /\ Len(reqs) = 2
  /\ reqs[1].res = OK
  /\ reqs[1].rdata \in dir

\* C10: an Update that returns without error leaves the plan's records and
\* ttl as the state, and an Update that directly follows it with the same
\* plan sends no request.
SecondUpdateIsEmpty ==
  /\ (Returned("update") /\ ~diag) =>
       /\ state.records = op.plan.records
       /\ state.ttl = op.plan.ttl
  /\ (op.kind = "update" /\ op.prev # NoPlan /\ op.prev = op.plan) =>
       reqs = <<>>

SecondUpdateIsEmptyWitness ==
  /\ Returned("update")
  /\ ~diag
  /\ op.prev = op.plan
  /\ op.plan.records # <<>>
  /\ dir # Range(op.plan.records)

\* C11: an Update that returns without error has sent exactly as many
\* requests as there are values in one of the old and new record sets and
\* not in the other.
UpdateSendsOnePerDifference ==
  (Returned("update") /\ ~diag) =>
    Len(reqs) = Cardinality((OldSet \ NewSet) \cup (NewSet \ OldSet))

\* C12: when an Update whose planned ttl differs from the ttl in state
\* returns without error and with every request answered OK, the record
\* set the directory holds for the identity carries the planned ttl.
UpdateRefreshesTTL ==
  [][(/\ pc = "update"
      /\ pc' = "idle"
      /\ ~diag'
      /\ state.ttl # op.plan.ttl
      /\ \A i \in 1..Len(reqs') : reqs'[i].res = OK
      /\ dir' # {})
       => dirTTL' = op.plan.ttl]_vars

\* C20: Create and Update send no two create requests for the same rdata
\* value in one operation.
CreatesAreDistinct ==
  op.kind \in {"create", "update"} =>
    \A i, j \in ReqIdx("create") : i < j => reqs[i].rdata # reqs[j].rdata

\* Whether s ends with t.
HasSuffix(s, t) ==
  Len(s) >= Len(t) /\ SubSeq(s, Len(s) - Len(t) + 1, Len(s)) = t

\* The hostname is the zone name or a subdomain of it.
InZone(host, zoneName) == host = zoneName \/ HasSuffix(host, <<".">> \o zoneName)

\* The nameservers of the plan that are inside the zone and have no entry
\* in ns_addresses.
MissingGlue(plan) ==
  {h \in Range(plan.nameservers) :
     InZone(h, Zone) /\ h \notin DOMAIN plan.ns_addresses}

\* C13: a zone Create whose plan names a nameserver inside the zone without
\* an ns_addresses entry for it reports an error and sends no request.
GlueCheckedBeforeRequest ==
  (zplan # NoZonePlan /\ MissingGlue(zplan) # {}) =>
    zdiag /\ zreqs = <<>>

\* The number of fields the grammar of a type has, 0 for a type whose rdata
\* is one field whatever it holds.
Arity(t) == CASE t = "MX" -> 2 [] t = "SRV" -> 4 [] t = "CAA" -> 3 [] OTHER -> 0

\* The positions of the numeric fields of a type.
NumericFields(t) ==
  CASE t = "MX" -> {1} [] t = "SRV" -> {1, 2, 3} [] t = "CAA" -> {1} [] OTHER -> {}

\* The text is a decimal integer.
IsInteger(s) == s # <<>> /\ \A i \in 1..Len(s) : s[i] \in Digits

\* The rdata is empty, has the wrong number of space-separated fields for
\* its type, or has a numeric field that is not an integer.
Malformed(t, raw) ==
  \/ raw = <<>>
  \/ /\ Arity(t) > 0
     /\ LET fs == Split(raw, " ") IN
        \/ Len(fs) # Arity(t)
        \/ \E i \in NumericFields(t) : ~IsInteger(fs[i])

\* C14: a record value that is empty, has the wrong field count for its
\* type or a non-integer numeric field is rejected: no create request is
\* sent to the directory for it.
MalformedIsRejected ==
  (call.fn = "create" /\ Malformed(call.type, call.raw)) => ~call.sent

\* The number of '/' characters of an identifier.
Slashes(id) == Cardinality({i \in 1..Len(id) : id[i] = "/"})

\* C15: ImportState accepts an identifier exactly when it has three
\* '/'-separated segments; it then sets zone, name and type to the segments
\* in order and id to the identifier; otherwise it reports an error and
\* sets no attribute.
ImportAcceptsThreeSegments ==
  call.fn = "import" =>
    IF Slashes(call.id) = 2
      THEN /\ ~call.error
           /\ call.set
           /\ call.attrs.id = call.id
           /\ call.attrs.zone \o <<"/">> \o call.attrs.name \o <<"/">>
                \o call.attrs.type = call.id
           /\ \A part \in {call.attrs.zone, call.attrs.name, call.attrs.type} :
                "/" \notin Range(part)
      ELSE /\ call.error
           /\ ~call.set
           /\ call.attrs = NoAttributes

ImportAcceptsThreeSegmentsWitness ==
  /\ call.fn = "import"
  /\ call.id = <<"e", "x", "/", "w", "/", "A">>
  /\ call.attrs.zone = <<"e", "x">>
  /\ call.attrs.name = <<"w">>
  /\ call.attrs.type = <<"A">>

\* No string field of the field values holds a double-quote character.
PlainFields(t, f) ==
  CASE t = "CAA" -> "\"" \notin Range(f.value)
    [] t = "TXT" -> "\"" \notin Range(f.text)
    [] OTHER -> TRUE

\* The convenience attributes and the data map hold the field values.
DecodedAs(t, f, attrs, data) ==
  CASE t = "A" -> attrs.address = f.address /\ data.address = f.address
    [] t = "CNAME" -> attrs.target = f.target /\ data.target = f.target
    [] t = "MX" -> /\ attrs.priority = f.preference
                   /\ attrs.target = f.exchange
                   /\ data.preference = IntText(f.preference)
                   /\ data.exchange = f.exchange
    [] t = "SRV" -> /\ attrs.priority = f.priority
                    /\ attrs.weight = f.weight
                    /\ attrs.port = f.port
                    /\ attrs.target = f.target
                    /\ data.priority = IntText(f.priority)
                    /\ data.weight = IntText(f.weight)
                    /\ data.port = IntText(f.port)
                    /\ data.target = f.target
    [] t = "CAA" -> /\ attrs.flags = f.flags
                    /\ attrs.tag = f.tag
                    /\ attrs.value = f.value
                    /\ data.flags = IntText(f.flags)
                    /\ data.tag = f.tag
                    /\ data.value = f.value
    [] t = "TXT" -> attrs.text = f.text /\ data.text = f.text

RoundTrip ==
  call.fn = "decode" =>
    DecodedAs(call.type, call.fields, call.attrs, call.data)

\* C18: an old and a new value that are equal after normalization are the
\* same record: Update issues no request for the pair.
NormalizedEqualNoRequest ==
  (call.fn = "diff"
     /\ buildRecordData(call.type, call.old) = buildRecordData(call.type, call.new))
    => call.acts = <<>>

\* C19: stripping the quotes of an already stripped TXT text or CAA value
\* changes nothing.
NormalizeIdempotent ==
  call.fn = "normalize" => call.twice = call.once

NormalizeIdempotentWitness ==
  /\ call.fn = "normalize"
  /\ call.raw = <<"\"", "\"", "a">>
  /\ call.once = <<"a">>
  /\ call.twice = <<"a">>

\* C21: zone, name and type never change in place: Update is only applied
\* when the three are the same in state and plan, and the id it leaves is
\* zone/name/type of the state; a change of any of them is a Delete of the
\* old identity followed by a Create of the new one.
IdentityNeverUpdated ==
  call.fn = "plan" =>
    LET old == [zone |-> call.prior.zone, name |-> call.prior.name,
                type |-> call.prior.type]
    IN
    /\ (\E k \in 1..Len(call.steps) : call.steps[k].kind = "update") =>
         /\ old = call.config
         /\ call.saved.id =
              RecordIDOf(call.saved.zone, call.saved.name, call.saved.type)
    /\ (call.prior.exists /\ old # call.config) =>
         call.steps = <<[kind |-> "delete"] @@ old,
                        [kind |-> "create"] @@ call.config>>

IdentityNeverUpdatedWitness ==
  /\ call.fn = "plan"
  /\ call.prior.exists
  /\ call.prior.name = Name
  /\ call.config.name = SlashName
  /\ call.prior.zone = call.config.zone
  /\ call.prior.type = call.config.type
  /\ Len(call.steps) = 2
  /\ call.steps[1].kind = "delete"
  /\ call.steps[2].kind = "create"

\* C30: the id Create writes parses under ImportState into the zone, name
\* and type it was written from, for every zone and name a resource can be
\* created with, those holding a '/' included.
CreatedIDImports ==
  call.fn = "reimport" =>
    /\ ~call.error
    /\ call.attrs.zone = call.created.zone
    /\ call.attrs.name = call.created.name
    /\ call.attrs.type = TypeText(call.created.type)

\* The next step of goroutine p reads c.token.
ReadsToken(p) == client.calls[p].pc = "header" /\ ~client.apiKey

\* The next step of goroutine p writes c.token.
WritesToken(p) == client.calls[p].pc = "store"

\* C22: handlers running concurrently on one client share no mutable
\* state: never is one goroutine about to write a field of the client (the
\* token) that another is about to read or write.
NoSharedMutableState ==
  \A p, q \in Procs :
    (p # q /\ WritesToken(p)) => ~(ReadsToken(q) \/ WritesToken(q))

\* C23: every doRequest call returns, whatever the server answers.
RequestTerminates ==
  \A p \in Procs :
    (client.calls[p].pc = "header") ~> (client.calls[p].pc = "idle")

\* C24: the convenience attributes are a view of the rdata: after a
\* Create, an Update and a Read that returns records they are a function of
\* the type and the first rdata value alone, and a value the configuration
\* supplies for them is neither saved nor sent in a request.
AttributesAreDerived ==
  call.fn = "save" =>
    /\ call.attrs = IF call.records = <<>> THEN ZeroAttributes
                    ELSE setComputedAttributes(call.type, <<call.records[1]>>)
    /\ \A i \in 1..Len(call.requests) :
         /\ call.requests[i].rdata \in Range(call.old) \cup Range(call.records)
         /\ call.requests[i].data \in
              {NoData, buildRecordData(call.type, call.requests[i].rdata)}

AttributesAreDerivedWitness ==
  /\ call.fn = "save"
  /\ call.kind = "create"
  /\ call.type = "A"
  /\ call.given = [address |-> ForeignAddr]
  /\ call.records = <<A1, A2>>
  /\ call.attrs.address = A1
  /\ Len(call.requests) = 2

\* C25: a Zone Update that succeeds transmits the changed configuration:
\* when the nameservers or glue addresses saved differ from those of the
\* prior state, a request of the Update carries the new ones.
ZoneUpdateTransmitsChanges ==
  [][(/\ zstate.exists
      /\ zstate'.exists
      /\ ~zdiag'
      /\ zstate'.plan # zstate.plan)
       => \E i \in 1..Len(zreqs') :
            /\ zreqs'[i].nameservers = zstate'.plan.nameservers
            /\ zreqs'[i].ns_addresses = zstate'.plan.ns_addresses]_vars

\* C26: a change of zone, key_type, algorithm, bits or ttl of a DNSSEC key
\* destroys and recreates the key, and the saved algorithm, bits and ttl
\* are those of the key on the server.
KeyChangeForcesReplace ==
  call.fn = "keyapply" =>
    /\ (\E a \in {"zone", "key_type", "algorithm", "bits", "ttl"} :
          call.prior[a] # call.config[a])
         => call.steps = <<"delete", "create">>
    /\ \A a \in {"algorithm", "bits", "ttl"} : call.saved[a] = call.server[a]

\* C27: a failure counts as not-found only when the directory answered
\* 404: a Delete that returns without an error has ignored no other failed
\* delete, and a Read that removed the resource had been answered 404.
NotFoundOnlyWhenReported ==
  /\ (Returned("delete") /\ ~diag) =>
       \A i \in 1..Len(reqs) : IsErr(reqs[i].res) => reqs[i].res.code = 404
  /\ (Returned("read") /\ ~state.exists) => reqs[1].res.code = 404

\* A step of Read: the only handler that starts and returns in one step.
ReadStep == pc = "idle" /\ pc' = "idle" /\ op'.kind = "read"

\* C28: a Read answered with an empty list and no error keeps the resource
\* and leaves its state as it was; only an error whose text reports
\* not-found removes the resource, and any other error leaves the state as
\* it was and is reported.
ReadKeepsStateOnEmptyList ==
  [][ReadStep =>
       LET r == reqs'[1].res IN
       /\ (~IsErr(r) /\ dir = {}) => (state' = state /\ ~diag')
       /\ ~state'.exists => (IsErr(r) /\ r.nf)
       /\ (IsErr(r) /\ ~r.nf) => (state' = state /\ diag')]_vars

ReadKeepsStateOnEmptyListWitness ==
  /\ Returned("read")
  /\ reqs[1].res = OK
  /\ dir = {}
  /\ ~diag
  /\ state.exists
  /\ state.records # <<>>
  /\ op.old = state.records

\* C29: every delete request of Delete and Update is restricted to one
\* rdata value of the state's records list, whatever strings the list
\* holds, so that a value that is not in the state is not removed.
DeletesAreRestricted ==
  call.fn = "deletes" =>
    \A i \in 1..Len(call.requests) :
      /\ DOMAIN call.requests[i].query = {"rdata"}
      /\ call.requests[i].query.rdata \in Range(call.old)

====
